---- MODULE Spec2Model ----
(***************************************************************************)
(* Bill splitter backend: receipt reconciliation (receipt_validator.py),   *)
(* unit-quantity expansion (openai_service.py), the stateless split        *)
(* calculation (routes/split.py) and the processing of an uploaded receipt *)
(* (routes/receipt.py, openai_service.py: extract_receipt_data), and the   *)
(* sessions kept in the database (sessionService.py).                      *)
(*                                                                         *)
(* Money is an integer number of cents, a percentage an integer number of  *)
(* hundredths of a percent.  The source computes on binary floats; the     *)
(* model computes on the exact decimal values, and where the source rounds *)
(* to 2 decimals a value lying exactly on a half (whose direction the      *)
(* float representation decides) both directions are modelled.  The       *)
(* comparisons with a tolerance are made on the exact values as well.     *)
(* An Optional field is a set: {} is None, {v} is the value v.             *)
(***************************************************************************)
EXTENDS Integers, Sequences, FiniteSets, TLC

\* op, req, resp, pc: the request being served, its response and the
\* position of its handler.  receipt_data_dict: the dictionary handed to
\* validate_and_process_receipt, as it is now.  processed_data: the
\* processed_data of the uploaded receipt in receipts_storage.
\* sessions, bill_sessions: the rows of the two tables, by session token
\* (of "sessions" the expires_at column).  now: the clock, in minutes.
VARIABLES op, req, resp, pc, receipt_data_dict, processed_data,
          sessions, bill_sessions, now

vars == <<op, req, resp, pc, receipt_data_dict, processed_data,
          sessions, bill_sessions, now>>

session_vars == <<sessions, bill_sessions, now>>

(***************************************************************************)
(* Bounds of the model.                                                    *)
(***************************************************************************)
MaxItems == 2
MaxCharges == 2
MaxCents == 7
MaxQuantity == 5
MaxAssignments == 2
MaxTime == 7

(***************************************************************************)
(* Arithmetic helpers.                                                     *)
(***************************************************************************)
Abs(x) == IF x < 0 THEN -x ELSE x

\* round(num / den, 0) for den > 0; an exact half goes up iff `up`.
Round(num, den, up) ==
    LET q == num \div den
        r == num % den
    IN  IF 2 * r < den THEN q
        ELSE IF 2 * r > den THEN q + 1
        ELSE IF up THEN q + 1 ELSE q

RECURSIVE Sum(_)
Sum(s) == IF s = <<>> THEN 0 ELSE Head(s) + Sum(Tail(s))

SeqsUpTo(S, n) == UNION {[1..k -> S] : k \in 0..n}

(***************************************************************************)
(* receipt_validator.py                                                    *)
(***************************************************************************)
\* The literal 0.05 of the split's final comparison with the grand total
\* (routes/split.py), in cents.
SplitTolerance == 5

\* The tolerance the specification states for the validator as well.
Tolerance_0_05 == SplitTolerance

\* The literal 0.01 of every comparison of the validator, in cents.
Tolerance == 1

TotalPrices(items) == [i \in DOMAIN items |-> items[i].total_price]
Amounts(taxes_or_charges) ==
    [i \in DOMAIN taxes_or_charges |-> taxes_or_charges[i].amount]
item_mismatch(item) ==
    Abs(item.total_price - item.quantity * item.unit_price) > Tolerance

\* Returns (calculated_items_total, number of item_validation_errors).
_validate_items(items) ==
    [calculated_items_total |-> Sum(TotalPrices(items)),
     item_errors |-> Cardinality({i \in DOMAIN items : item_mismatch(items[i])})]

\* A raised ValueError: the raise site and the values its message carries.
Failure(kind, info) == [ok |-> FALSE, error |-> kind, info |-> info]

Scenario(final_subtotal, tax_scenario) ==
    [ok |-> TRUE, final_subtotal |-> final_subtotal,
     tax_scenario |-> tax_scenario]

\* Scenario 1: the subtotal is explicitly provided.
scenario_with_subtotal_grand_first(calculated_items_total, provided_subtotal, total_taxes_charges, grand_total, item_errors) ==
    LET subtotal_diff == Abs(calculated_items_total - provided_subtotal)
        expected_grand_total == provided_subtotal + total_taxes_charges
        grand_total_diff == Abs(expected_grand_total - grand_total)
    IN  IF grand_total_diff > Tolerance
        THEN Failure("GrandTotalMismatch",
                     [expected |-> expected_grand_total,
                      subtotal |-> provided_subtotal,
                      taxes |-> total_taxes_charges,
                      grand_total |-> grand_total,
                      difference |-> grand_total_diff])
        ELSE IF subtotal_diff > Tolerance
        THEN Failure("ItemsSubtotalMismatch",
                     [items_total |-> calculated_items_total,
                      subtotal |-> provided_subtotal,
                      difference |-> subtotal_diff,
                      item_errors |-> item_errors])
        ELSE Scenario(provided_subtotal, "tax_exclusive")

scenario_with_subtotal(calculated_items_total, provided_subtotal, total_taxes_charges, grand_total, item_errors) ==
    LET subtotal_diff == Abs(calculated_items_total - provided_subtotal)
        expected_grand_total == provided_subtotal + total_taxes_charges
        grand_total_diff == Abs(expected_grand_total - grand_total)
    IN  IF subtotal_diff > Tolerance
        THEN Failure("ItemsSubtotalMismatch",
                     [items_total |-> calculated_items_total,
                      subtotal |-> provided_subtotal,
                      difference |-> subtotal_diff,
                      item_errors |-> item_errors])
        ELSE IF grand_total_diff > Tolerance
        THEN Failure("GrandTotalMismatch",
                     [expected |-> expected_grand_total,
                      subtotal |-> provided_subtotal,
                      taxes |-> total_taxes_charges,
                      grand_total |-> grand_total,
                      difference |-> grand_total_diff])
        ELSE Scenario(provided_subtotal, "tax_exclusive")

\* Scenario 2 without taxes: the items should equal the grand total.
scenario_no_taxes(calculated_items_total, grand_total) ==
    LET items_grand_diff == Abs(calculated_items_total - grand_total)
    IN  IF items_grand_diff <= Tolerance
        THEN Scenario(grand_total, "no_taxes")
        ELSE Failure("ItemsGrandTotalMismatch",
                     [items_total |-> calculated_items_total,
                      grand_total |-> grand_total,
                      difference |-> items_grand_diff])

AmbiguousTotals(calculated_items_total, grand_total, total_taxes_charges) ==
    Failure("AmbiguousTotals",
            [items_total |-> calculated_items_total,
             grand_total |-> grand_total,
             items_grand_diff |-> Abs(calculated_items_total - grand_total),
             calculated_subtotal |-> grand_total - total_taxes_charges,
             items_subtotal_diff |->
                 Abs(calculated_items_total
                     - (grand_total - total_taxes_charges))])

\* Scenario 2 with taxes: items equal the grand total (tax-inclusive) or
\* the grand total less the taxes (tax-exclusive).
check_both_scenarios_exclusive_first(calculated_items_total, total_taxes_charges, grand_total) ==
    LET items_grand_diff == Abs(calculated_items_total - grand_total)
        calculated_subtotal == grand_total - total_taxes_charges
        items_subtotal_diff == Abs(calculated_items_total - calculated_subtotal)
    IN  IF items_subtotal_diff <= Tolerance /\ calculated_subtotal >= 0
        THEN Scenario(calculated_subtotal, "tax_exclusive")
        ELSE IF items_grand_diff <= Tolerance
        THEN Scenario(grand_total, "tax_inclusive")
        ELSE AmbiguousTotals(calculated_items_total, grand_total,
                             total_taxes_charges)

check_both_scenarios_negative_subtotal(calculated_items_total, total_taxes_charges, grand_total) ==
    LET items_grand_diff == Abs(calculated_items_total - grand_total)
        calculated_subtotal == grand_total - total_taxes_charges
        items_subtotal_diff == Abs(calculated_items_total - calculated_subtotal)
    IN  IF items_grand_diff <= Tolerance
        THEN Scenario(grand_total, "tax_inclusive")
        ELSE IF items_subtotal_diff <= Tolerance
        THEN Scenario(calculated_subtotal, "tax_exclusive")
        ELSE AmbiguousTotals(calculated_items_total, grand_total,
                             total_taxes_charges)

check_both_scenarios(calculated_items_total, total_taxes_charges, grand_total) ==
    LET items_grand_diff == Abs(calculated_items_total - grand_total)
        calculated_subtotal == grand_total - total_taxes_charges
        items_subtotal_diff == Abs(calculated_items_total - calculated_subtotal)
    IN  IF items_grand_diff <= Tolerance
        THEN Scenario(grand_total, "tax_inclusive")
        ELSE IF items_subtotal_diff <= Tolerance /\ calculated_subtotal >= 0
        THEN Scenario(calculated_subtotal, "tax_exclusive")
        ELSE AmbiguousTotals(calculated_items_total, grand_total,
                             total_taxes_charges)

determine_tax_scenario_no_zero_case(calculated_items_total, provided_subtotal, total_taxes_charges, grand_total, item_errors) ==
    IF provided_subtotal > Tolerance
    THEN scenario_with_subtotal(calculated_items_total, provided_subtotal,
                                total_taxes_charges, grand_total, item_errors)
    ELSE check_both_scenarios(calculated_items_total, total_taxes_charges,
                              grand_total)

_determine_tax_scenario(calculated_items_total, provided_subtotal, total_taxes_charges, grand_total, item_errors) ==
    LET subtotal_explicitly_provided == provided_subtotal > Tolerance
    IN  IF subtotal_explicitly_provided
        THEN scenario_with_subtotal(calculated_items_total, provided_subtotal,
                                    total_taxes_charges, grand_total,
                                    item_errors)
        ELSE IF total_taxes_charges = 0
        THEN scenario_no_taxes(calculated_items_total, grand_total)
        ELSE check_both_scenarios(calculated_items_total, total_taxes_charges,
                                  grand_total)

\* The charge lines after the in-place update of their "percent" key.
_calculate_tax_percentages(taxes_or_charges, final_subtotal, total_taxes_charges, tax_scenario, up) ==
    IF total_taxes_charges = 0 \/ final_subtotal <= 0
    THEN taxes_or_charges
    ELSE LET tax_exclusive_base == final_subtotal - total_taxes_charges
             percent(amount) ==
                 IF tax_scenario = "tax_inclusive"
                 THEN IF tax_exclusive_base > 0
                      THEN Round(amount * 10000, tax_exclusive_base, up)
                      ELSE 0
                 ELSE Round(amount * 10000, final_subtotal, up)
         IN  [i \in DOMAIN taxes_or_charges |->
                 [taxes_or_charges[i] EXCEPT
                     !.percent = {percent(taxes_or_charges[i].amount)}]]

\* The outcome of one call: the error raised, or the data dictionary as the
\* call leaves it (it is updated in place and returned).
grand_total_missing_negative_only(grand_total) == grand_total < 0

grand_total_missing(grand_total) == grand_total <= 0

validate_and_process_receipt(data, up) ==
    IF grand_total_missing(data.grand_total)
    THEN Failure("MissingGrandTotal", [grand_total |-> data.grand_total])
    ELSE LET v == _validate_items(data.items)
             total_taxes_charges == Sum(Amounts(data.taxes_or_charges))
             r == _determine_tax_scenario(v.calculated_items_total,
                                         data.subtotal, total_taxes_charges,
                                         data.grand_total, v.item_errors)
         IN  IF ~r.ok THEN r
             ELSE [ok |-> TRUE, error |-> "",
                   data |-> [data EXCEPT
                       !.subtotal = r.final_subtotal,
                       !.taxes_or_charges =
                           _calculate_tax_percentages(
                               data.taxes_or_charges, r.final_subtotal,
                               total_taxes_charges, r.tax_scenario, up)],
                   validation_info |->
                       [tax_scenario |-> r.tax_scenario,
                        items_total |-> v.calculated_items_total,
                        final_subtotal |-> r.final_subtotal,
                        total_taxes_charges |-> total_taxes_charges,
                        validation_passed |-> TRUE]]

(***************************************************************************)
(* openai_service.py: _expand_items_to_unit_quantity.  Items are numeric   *)
(* (the parsing-error fallback is not taken); round(unit_price, 2) leaves  *)
(* a price in cents as it is.                                              *)
(***************************************************************************)
UnitItem(name, unit_price, total_price) ==
    [name |-> name, quantity |-> 1, unit_price |-> unit_price,
     total_price |-> total_price]

\* The expansion that gives every unit the whole total of its item.
expand_item_no_division(item, up) ==
    IF item.quantity <= 1
    THEN <<UnitItem(item.name, item.unit_price,
                    IF item.quantity = 1 \/ item.total_price > 0
                    THEN item.total_price ELSE item.unit_price)>>
    ELSE [i \in 1..item.quantity |->
             UnitItem(item.name,
                      IF item.total_price > 0 THEN item.total_price
                      ELSE item.unit_price,
                      IF item.total_price > 0 THEN item.total_price
                      ELSE item.unit_price)]

\* The expansion that passes an item through only below quantity 1, and
\* distributes the total of an item of quantity 1 like that of a larger one.
expand_item_passthrough_below_one(item, up) ==
    IF item.quantity < 1
    THEN <<UnitItem(item.name, item.unit_price,
                    IF item.total_price > 0 THEN item.total_price
                    ELSE item.unit_price)>>
    ELSE LET per_unit_total ==
                 IF item.total_price > 0
                 THEN Round(item.total_price, item.quantity, up)
                 ELSE item.unit_price
             remainder ==
                 IF item.total_price > 0
                 THEN item.total_price - per_unit_total * (item.quantity - 1)
                 ELSE per_unit_total
         IN  [i \in 1..item.quantity |->
                 UnitItem(item.name, per_unit_total,
                          IF i < item.quantity \/ remainder < 0
                          THEN per_unit_total ELSE remainder)]

\* The items one input item expands to.
expand_item(item, up) ==
    LET name == item.name
        quantity == item.quantity
        unit_price == item.unit_price
        total == item.total_price
    IN  IF quantity <= 1
        THEN <<UnitItem(name, unit_price,
                        IF quantity = 1 THEN total
                        ELSE IF total > 0 THEN total ELSE unit_price)>>
        ELSE LET per_unit_total ==
                     IF total > 0 THEN Round(total, quantity, up)
                     ELSE unit_price
                 per_unit_price == per_unit_total
                 accumulated == per_unit_total * (quantity - 1)
                 remainder == IF total > 0 THEN total - accumulated
                              ELSE per_unit_total
                 last_total == IF remainder < 0 THEN per_unit_total
                               ELSE remainder
             IN  [i \in 1..quantity |->
                     UnitItem(name, per_unit_price,
                              IF i < quantity THEN per_unit_total
                              ELSE last_total)]

\* The expansion that puts the units of a later item first.
RECURSIVE expand_items_reversed(_, _)
expand_items_reversed(items, up) ==
    IF items = <<>> THEN <<>>
    ELSE expand_items_reversed(Tail(items), up)
             \o expand_item(Head(items), up)

RECURSIVE _expand_items_to_unit_quantity(_, _)
_expand_items_to_unit_quantity(items, up) ==
    IF items = <<>> THEN <<>>
    ELSE expand_item(Head(items), up)
             \o _expand_items_to_unit_quantity(Tail(items), up)

(***************************************************************************)
(* routes/split.py: calculate_split.  A share ratio or a distributed share *)
(* is a fraction <<numerator, denominator>>.                               *)
(***************************************************************************)
Range(s) == {s[i] : i \in DOMAIN s}

\* The characters of the charge names of the model.
Chars(name) ==
    CASE name = "GST" -> <<"G", "S", "T">>
      [] name = "SVC" -> <<"S", "V", "C">>
      [] name = "Discount" -> <<"D", "i", "s", "c", "o", "u", "n", "t">>
      [] name = "Service Charge" ->
             <<"S", "e", "r", "v", "i", "c", "e", " ",
               "C", "h", "a", "r", "g", "e">>

\* str.lower on one character.
LowerChar(ch) ==
    CASE ch = "C" -> "c"
      [] ch = "D" -> "d"
      [] ch = "G" -> "g"
      [] ch = "S" -> "s"
      [] ch = "T" -> "t"
      [] ch = "V" -> "v"
      [] OTHER -> ch

\* tc.name.lower(), as characters.
name_lower(name) == [i \in DOMAIN Chars(name) |-> LowerChar(Chars(name)[i])]

\* sub in s
Contains(s, sub) ==
    \E k \in 0..(Len(s) - Len(sub)) : SubSeq(s, k + 1, k + Len(sub)) = sub

Service == <<"s", "e", "r", "v", "i", "c", "e">>

Svc == <<"s", "v", "c">>

Warning(kind, detail) == [kind |-> kind, detail |-> detail]

valid_person_ids(assignment, participants) ==
    SelectSeq(assignment.person_ids, LAMBDA pid : pid \in Range(participants))

\* assignment.shares.get(pid, 0)
shares_get(assignment, pid) ==
    LET m == CHOOSE f \in assignment.shares : TRUE
    IN  IF pid \in DOMAIN m THEN m[pid] ELSE 0

\* The ratios taken over all the listed person ids, valid or not.
share_ratio_over_all_listed(assignment, valid, pid) ==
    LET listed == assignment.person_ids
        equal == <<1, Len(listed)>>
    IN  IF assignment.shares # {}
           /\ DOMAIN (CHOOSE f \in assignment.shares : TRUE) # {}
        THEN LET total_share ==
                     Sum([i \in DOMAIN listed |-> shares_get(assignment, listed[i])])
             IN  <<shares_get(assignment, pid), total_share>>
        ELSE equal

\* shares[pid] of the assignment, over its valid person ids.
share_ratio(assignment, valid, pid) ==
    LET equal == <<1, Len(valid)>>
    IN  IF assignment.shares # {}
           /\ DOMAIN (CHOOSE f \in assignment.shares : TRUE) # {}
        THEN LET total_share ==
                     Sum([i \in DOMAIN valid |-> shares_get(assignment, valid[i])])
             IN  IF total_share <= 0 THEN equal
                 ELSE <<shares_get(assignment, pid), total_share>>
        ELSE equal

\* One pass of the loop over request.item_assignments, for an item index
\* that is in range.
assign_item(st, assignment, receipt, participants, up) ==
    LET idx == assignment.item_index
    IN  LET item == receipt.items[idx + 1]
            assigned == [st EXCEPT !.assigned_indices = @ \cup {idx}]
            valid == valid_person_ids(assignment, participants)
            ratio(pid) == share_ratio(assignment, valid, pid)
            share_amount(pid) ==
                Round(item.total_price * ratio(pid)[1], ratio(pid)[2], up)
            times(pid) == Cardinality({i \in DOMAIN valid : valid[i] = pid})
            entry(pid) ==
                [name |-> item.name,
                 quantity |-> item.quantity,
                 unit_price |-> item.unit_price,
                 total_price |-> item.total_price,
                 share_ratio |-> ratio(pid),
                 share_amount |-> share_amount(pid),
                 shared_with |->
                     IF Len(valid) > 1
                     THEN SelectSeq(valid, LAMBDA p : p # pid)
                     ELSE <<>>]
        IN  IF valid = <<>>
            THEN [assigned EXCEPT !.validation_warnings =
                      Append(@, Warning("no_valid_participants", idx))]
            ELSE [assigned EXCEPT
                     !.items = [pid \in DOMAIN @ |->
                         @[pid] \o [k \in 1..times(pid) |-> entry(pid)]],
                     !.subtotal = [pid \in DOMAIN @ |->
                         IF times(pid) = 0 THEN @[pid]
                         ELSE @[pid] + times(pid) * share_amount(pid)]]

\* A pass that skips an index out of range without a warning.
process_assignment_skips_silently(st, assignment, receipt, participants, up) ==
    LET idx == assignment.item_index
    IN  IF idx < 0 \/ idx >= Len(receipt.items)
        THEN st
        ELSE assign_item(st, assignment, receipt, participants, up)

\* One pass of the loop over request.item_assignments.
process_assignment(st, assignment, receipt, participants, up) ==
    LET idx == assignment.item_index
    IN  IF idx < 0 \/ idx >= Len(receipt.items)
        THEN [st EXCEPT !.validation_warnings =
                            Append(@, Warning("invalid_item_index", idx))]
        ELSE assign_item(st, assignment, receipt, participants, up)

RECURSIVE process_assignments(_, _, _, _, _)
process_assignments(st, assignments, receipt, participants, up) ==
    IF assignments = <<>> THEN st
    ELSE process_assignments(
             process_assignment(st, Head(assignments), receipt,
                                participants, up),
             Tail(assignments), receipt, participants, up)

\* The items whose index no assignment added to assigned_indices.
find_unassigned_items(receipt, assigned_indices) ==
    LET indices == [i \in 1..Len(receipt.items) |-> i - 1]
        unassigned == SelectSeq(indices, LAMBDA idx : idx \notin assigned_indices)
    IN  [k \in DOMAIN unassigned |->
            [index |-> unassigned[k],
             name |-> receipt.items[unassigned[k] + 1].name,
             total_price |-> receipt.items[unassigned[k] + 1].total_price]]

\* total_tax, total_service_charge and total_discount of the charge lines.
charge_totals(taxes_or_charges) ==
    LET amount(i) == taxes_or_charges[i].amount
        bucket(i) ==
            IF amount(i) < 0 THEN "discount"
            ELSE IF Contains(name_lower(taxes_or_charges[i].name), Service)
                    \/ Contains(name_lower(taxes_or_charges[i].name), Svc)
                 THEN "service"
            ELSE "tax"
        total(b) ==
            Sum([i \in DOMAIN taxes_or_charges |->
                    IF bucket(i) = b THEN Abs(amount(i)) ELSE 0])
    IN  [total_tax |-> total("tax"),
         total_service_charge |-> total("service"),
         total_discount |-> total("discount")]

\* The distribution that ignores the mode and is always proportional.
bucket_share_always_proportional(total, distribution, n, proportion_num, den) == total * proportion_num

\* One person's share of a bucket, as a fraction over the denominator den:
\* n persons, proportion = proportion_num / den.
bucket_share(total, distribution, n, proportion_num, den) ==
    IF distribution = "equal" THEN total * (den \div n)
    ELSE total * proportion_num

\* A check that lets every participant list through.
no_participants_never(participants) == participants # participants

\* The check that ends the request with the status 400.
no_participants(participants) == participants = <<>>

\* A comparison without tolerance.
split_total_differs_at_all(calculated_grand_total, grand_total) ==
    calculated_grand_total # grand_total

\* The final comparison of the participants' totals with the grand total.
split_total_differs(calculated_grand_total, grand_total) ==
    Abs(calculated_grand_total - grand_total) > SplitTolerance

calculate_split(request, up) ==
    LET receipt == request.receipt_data
        participants == request.participants
        n == Len(participants)
    IN  IF no_participants(participants)
        THEN [ok |-> FALSE, error |-> "NoParticipants", status_code |-> 400]
        ELSE
        LET st == process_assignments(
                      [items |-> [pid \in Range(participants) |-> <<>>],
                       subtotal |-> [pid \in Range(participants) |-> 0],
                       assigned_indices |-> {},
                       validation_warnings |-> <<>>],
                      request.item_assignments, receipt, participants, up)
            unassigned_items == find_unassigned_items(receipt, st.assigned_indices)
            warnings2 ==
                IF unassigned_items # <<>>
                THEN Append(st.validation_warnings,
                            Warning("unassigned_items", Len(unassigned_items)))
                ELSE st.validation_warnings
            items_total == Sum(TotalPrices(receipt.items))
            total_subtotal ==
                Sum([i \in DOMAIN participants |-> st.subtotal[participants[i]]])
            buckets == charge_totals(receipt.taxes_or_charges)
            den == IF total_subtotal > 0 THEN n * total_subtotal ELSE n
            proportion_num(pid) ==
                IF total_subtotal > 0 THEN st.subtotal[pid] * n ELSE 1
            tax_share(pid) ==
                bucket_share(buckets.total_tax, request.tax_distribution,
                             n, proportion_num(pid), den)
            service_share(pid) ==
                bucket_share(buckets.total_service_charge,
                             request.service_charge_distribution,
                             n, proportion_num(pid), den)
            discount_share(pid) ==
                bucket_share(buckets.total_discount,
                             request.discount_distribution,
                             n, proportion_num(pid), den)
            total(pid) == st.subtotal[pid] * den + tax_share(pid)
                              + service_share(pid) - discount_share(pid)
            person_splits ==
                [i \in DOMAIN participants |->
                    LET pid == participants[i]
                    IN  [person_id |-> pid,
                         items |-> st.items[pid],
                         subtotal |-> st.subtotal[pid],
                         tax_share |-> Round(tax_share(pid), den, up),
                         service_charge_share |->
                             Round(service_share(pid), den, up),
                         discount_share |-> Round(discount_share(pid), den, up),
                         total |-> Round(total(pid), den, up)]]
            calculated_grand_total ==
                Sum([i \in DOMAIN person_splits |-> person_splits[i].total])
            warnings3 ==
                IF split_total_differs(calculated_grand_total,
                                       receipt.grand_total)
                THEN Append(warnings2,
                            Warning("split_total_differs", calculated_grand_total))
                ELSE warnings2
        IN  [ok |-> TRUE, error |-> "",
             person_splits |-> person_splits,
             totals |-> [items_total |-> items_total,
                         subtotal |-> receipt.subtotal,
                         total_tax |-> buckets.total_tax,
                         total_service_charge |-> buckets.total_service_charge,
                         total_discount |-> buckets.total_discount,
                         grand_total |-> receipt.grand_total],
             unassigned_items |-> unassigned_items,
             validation_warnings |-> warnings3]

\* The totals of the charge lines as POST /split/preview computes them.
preview_charge_totals(taxes_or_charges) ==
    LET amount(i) == taxes_or_charges[i].amount
        bucket(i) ==
            IF amount(i) < 0 THEN "discount"
            ELSE IF Contains(name_lower(taxes_or_charges[i].name), Service)
                 THEN "service"
            ELSE "tax"
        total(b) ==
            Sum([i \in DOMAIN taxes_or_charges |->
                    IF bucket(i) = b THEN Abs(amount(i)) ELSE 0])
    IN  [total_tax |-> total("tax"),
         total_service_charge |-> total("service"),
         total_discount |-> total("discount")]

\* POST /split/preview
preview_equal_split(receipt_data, participant_count, up) ==
    IF participant_count < 1
    THEN [ok |-> FALSE, error |-> "At least 1 participant required",
          status_code |-> 400]
    ELSE LET buckets == preview_charge_totals(receipt_data.taxes_or_charges)
         IN  [ok |-> TRUE, error |-> "",
              participant_count |-> participant_count,
              per_person_total |->
                  Round(receipt_data.grand_total, participant_count, up),
              totals |-> [items_total |-> Sum(TotalPrices(receipt_data.items)),
                          subtotal |-> receipt_data.subtotal,
                          total_tax |-> buckets.total_tax,
                          total_service_charge |-> buckets.total_service_charge,
                          total_discount |-> buckets.total_discount,
                          grand_total |-> receipt_data.grand_total]]

(***************************************************************************)
(* sessionService.py.  The database is the pair of its two tables; a call  *)
(* returns its value, the lines it logs and the database as it leaves it.  *)
(* The clock is read in minutes and does not move during a call.  Whether  *)
(* the deletion of a session row takes the bill row with it depends on the *)
(* foreign key of the database, which the repository does not define: both *)
(* outcomes are modelled (cascade).                                        *)
(***************************************************************************)
\* timedelta(minutes=5)
SessionLifetime == 5

Database(session_rows, bill_rows) ==
    [sessions |-> session_rows, bill_sessions |-> bill_rows]

Returned(db, value, log) == [db |-> db, value |-> value, log |-> log]

Without(rows, token) == [t \in DOMAIN rows \ {token} |-> rows[t]]

\* The bill row inserted with a new session.
NewBillSession ==
    [current_step |-> 1, participants |-> <<>>, receipt_data |-> {},
     receipt_id |-> {}, item_assignments |-> <<>>, split_results |-> {},
     known_participants |-> <<>>]

allowed_fields ==
    {"current_step", "participants", "receipt_data", "receipt_id",
     "item_assignments", "split_results", "known_participants"}

\* A session that stays readable for a lifetime after its expiry.
is_expired_after_grace(expires_at, current_time) ==
    expires_at + SessionLifetime < current_time

\* expires_at < current_time
is_expired(expires_at, current_time) == expires_at < current_time

create_session(db, session_token, current_time) ==
    LET expires_at == current_time + SessionLifetime
    IN  Returned(Database((session_token :> expires_at) @@ db.sessions,
                          (session_token :> NewBillSession) @@ db.bill_sessions),
                 [session_token |-> session_token, expires_at |-> expires_at,
                  created |-> TRUE],
                 <<"Session created successfully">>)

delete_session(db, session_token, cascade) ==
    IF session_token \in DOMAIN db.sessions
    THEN Returned(Database(Without(db.sessions, session_token),
                           IF cascade
                           THEN Without(db.bill_sessions, session_token)
                           ELSE db.bill_sessions),
                  TRUE, <<"Session deleted successfully">>)
    ELSE Returned(db, FALSE, <<"Session not found for deletion">>)

\* The value is None ({}) or the session data ({result}).
get_session(db, session_token, current_time, cascade) ==
    IF session_token \notin DOMAIN db.sessions
    THEN Returned(db, {}, <<"Session not found">>)
    ELSE IF is_expired(db.sessions[session_token], current_time)
    THEN LET deleted == delete_session(db, session_token, cascade)
         IN  Returned(deleted.db, {},
                      <<"Session expired, cleaning up">> \o deleted.log)
    ELSE IF session_token \notin DOMAIN db.bill_sessions
    THEN Returned(db, {}, <<"Session found but no bill session data">>)
    ELSE Returned(db,
                  {[session_token |-> session_token,
                    expires_at |-> db.sessions[session_token],
                    bill_session |-> db.bill_sessions[session_token]]},
                  <<"Session retrieved successfully">>)

update_session(db, session_token, data, current_time, cascade) ==
    LET session_data == get_session(db, session_token, current_time, cascade)
    IN  IF session_data.value = {}
        THEN Returned(session_data.db, FALSE,
                      session_data.log \o <<"Session not found for update">>)
        ELSE LET new_expires_at == current_time + SessionLifetime
                 update_data ==
                     [f \in DOMAIN data \cap allowed_fields |-> data[f]]
                 bill_session == db.bill_sessions[session_token]
                 updated ==
                     [f \in DOMAIN bill_session |->
                         IF f \in DOMAIN update_data THEN update_data[f]
                         ELSE bill_session[f]]
             IN  Returned(Database([db.sessions EXCEPT
                                       ![session_token] = new_expires_at],
                                   [db.bill_sessions EXCEPT
                                       ![session_token] = updated]),
                          TRUE,
                          session_data.log \o
                              (IF DOMAIN update_data # {}
                               THEN <<"Session updated successfully">>
                               ELSE <<"No valid fields to update for session">>))

\* Every session row of an earlier expires_at is deleted.
cleanup_expired_sessions(db, current_time, cascade) ==
    LET expired == {t \in DOMAIN db.sessions : db.sessions[t] < current_time}
    IN  Returned(Database([t \in DOMAIN db.sessions \ expired |-> db.sessions[t]],
                          IF cascade
                          THEN [t \in DOMAIN db.bill_sessions \ expired |->
                                   db.bill_sessions[t]]
                          ELSE db.bill_sessions),
                 Cardinality(expired), <<"Cleaned up expired sessions">>)

(***************************************************************************)
(* Requests.                                                               *)
(***************************************************************************)
Item(q, u, t) ==
    [name |-> "item", quantity |-> q, unit_price |-> u, total_price |-> t]

Charge(n, a, p) == [name |-> n, amount |-> a, percent |-> p]

\* Items as the extraction hands them to the validator: unit items whose
\* total is their unit price, and one whose total disagrees with it.
ExtractedItems ==
    {Item(1, t, t) : t \in {0, 1, 2, 5}} \cup {Item(2, 1, 3)}

\* Charge lines as extracted: no percent, or a percent the extraction
\* guessed.
ExtractedCharges ==
    {Charge("GST", 1, {}), Charge("GST", 2, {}), Charge("Service Charge", 1, {}),
     Charge("Discount", -1, {}), Charge("GST", 1, {999})}

ExtractedReceipts ==
    [items : SeqsUpTo(ExtractedItems, MaxItems),
     subtotal : 0..MaxCents,
     taxes_or_charges : SeqsUpTo(ExtractedCharges, MaxCharges),
     grand_total : -1..MaxCents]

\* Item lists handed to the expansion: any quantity from -1 up, with a total
\* of 0 (unit price 0 or 2), a total of up to MaxCents, or 10.00 at 3.33.
ExpandPrices ==
    {<<0, 0>>, <<2, 0>>, <<333, 1000>>} \cup {<<1, t>> : t \in 1..MaxCents}

\* The name tells the kinds of price apart, so that the order of two items of
\* different kinds shows in the names of the result.
ExpandName(p) ==
    IF p[2] > 0 THEN (IF p[1] = 1 THEN "unit" ELSE "set")
    ELSE IF p[1] > 0 THEN "unpriced" ELSE "free"

ExpandItems ==
    {[name |-> ExpandName(p), quantity |-> q, unit_price |-> p[1],
      total_price |-> p[2]] : q \in -1..MaxQuantity, p \in ExpandPrices}

ExpandRequests == SeqsUpTo(ExpandItems, MaxItems)

\* Receipts sent to the split: tax-exclusive with a stated subtotal,
\* tax-inclusive, without taxes, with the three kinds of charge line, with
\* unpriced items, and one whose totals do not reconcile.
NamedItem(n, t) ==
    [name |-> n, quantity |-> 1, unit_price |-> t, total_price |-> t]

Receipt(items, subtotal, taxes_or_charges, grand_total) ==
    [items |-> items, subtotal |-> subtotal,
     taxes_or_charges |-> taxes_or_charges, grand_total |-> grand_total]

SplitReceipts ==
    {Receipt(<<NamedItem("A", 1000)>>, 1000, <<Charge("GST", 100, {})>>, 1100),
     Receipt(<<NamedItem("A", 1100)>>, 0, <<Charge("GST", 100, {})>>, 1100),
     Receipt(<<NamedItem("A", 10), NamedItem("B", 5)>>, 0, <<>>, 15),
     Receipt(<<NamedItem("A", 1000), NamedItem("B", 500)>>, 1500,
             <<Charge("Service Charge", 150, {}), Charge("GST", 105, {}),
               Charge("Discount", -55, {})>>, 1700),
     Receipt(<<NamedItem("A", 0)>>, 0, <<Charge("GST", 100, {})>>, 100),
     Receipt(<<NamedItem("A", 500)>>, 0, <<Charge("GST", 100, {})>>, 1100),
     Receipt(<<NamedItem("A", 1000)>>, 1000,
             <<Charge("SVC", 100, {}), Charge("Service Charge", -50, {}),
               Charge("GST", 50, {})>>, 1100)}

\* The receipt with a line in each of the three buckets.
BucketReceipts ==
    {r \in SplitReceipts :
        LET t == charge_totals(r.taxes_or_charges)
        IN  t.total_tax > 0 /\ t.total_service_charge > 0 /\ t.total_discount > 0}

\* No participant, or the first one, two or three of p1, p2, p3.
ParticipantLists == {<<>>, <<"p1">>, <<"p1", "p2">>, <<"p1", "p2", "p3">>}

\* person_ids of an assignment: participants, with or without an unknown id.
PersonIdLists ==
    (ParticipantLists \ {<<>>}) \cup {<<"ghost">>, <<"p1", "ghost">>}

\* item_index of an assignment: the receipts have one or two items.
ItemIndices == {-1, 0, 1}

\* Custom shares: weights 1 and 3, and weights that sum to 0.
CustomShares == {("p1" :> 1) @@ ("p2" :> 3), ("p1" :> 0) @@ ("p2" :> 0)}

\* Any index with one or two ids; the first item shared by three, or by
\* two with custom shares.
Assignments ==
    [item_index : ItemIndices,
     person_ids : PersonIdLists \ {<<"p1", "p2", "p3">>}, shares : {{}}]
    \cup [item_index : {0}, person_ids : {<<"p1", "p2", "p3">>}, shares : {{}}]
    \cup [item_index : {0}, person_ids : {<<"p1", "p2">>},
          shares : {{m} : m \in CustomShares}]

Distributions == {"proportional", "equal"}

\* Charge lines of a preview: each name as a charge and as a reduction.
PreviewCharges ==
    {Charge(n, a, {}) : n \in {"GST", "SVC", "Service Charge", "Discount"},
                        a \in {-50, 100}}

\* One item of 10.00 and up to MaxCharges charge lines that add up.
PreviewReceipts ==
    {Receipt(<<NamedItem("A", 1000)>>, 1000, charges,
             1000 + Sum([i \in DOMAIN charges |-> charges[i].amount])) :
         charges \in SeqsUpTo(PreviewCharges, MaxCharges)}

\* participant_count is any integer of the query string.
PreviewRequests ==
    [receipt_data : PreviewReceipts, participant_count : {-1, 0, 1, 2, 3}]

\* Every combination of the three modes, on the receipts with three
\* buckets; each mode of the tax on the others.
SplitRequests ==
    [receipt_data : BucketReceipts,
     participants : ParticipantLists,
     item_assignments : SeqsUpTo(Assignments, MaxAssignments),
     tax_distribution : Distributions,
     service_charge_distribution : Distributions,
     discount_distribution : Distributions]
    \cup
    [receipt_data : SplitReceipts \ BucketReceipts,
     participants : ParticipantLists,
     item_assignments : SeqsUpTo(Assignments, MaxAssignments),
     tax_distribution : Distributions,
     service_charge_distribution : {"proportional"},
     discount_distribution : {"proportional"}]

\* The extraction's answers for an uploaded receipt, and the corrections a
\* client sends for it: items of quantity 1 and of a larger quantity, with
\* or without a stated subtotal and a tax line, and a grand total that is
\* missing, or that the items and the tax line do or do not add up to.
PipelineItems == {Item(1, 5, 5), Item(2, 1, 2), Item(5, 1, 3)}

PipelineReceipts ==
    [items : SeqsUpTo(PipelineItems, MaxItems),
     subtotal : {0, 5},
     taxes_or_charges : {<<>>, <<Charge("GST", 1, {})>>},
     grand_total : {0, 5, 6, 7}]

\* The split a client asks for a receipt: its first item shared by two
\* participants, every bucket distributed proportionally.
SplitRequest(receipt) ==
    [receipt_data |-> receipt,
     participants |-> <<"p1", "p2">>,
     item_assignments |->
         <<[item_index |-> 0, person_ids |-> <<"p1", "p2">>, shares |-> {}]>>,
     tax_distribution |-> "proportional",
     service_charge_distribution |-> "proportional",
     discount_distribution |-> "proportional"]

(***************************************************************************)
(* routes/receipt.py and extract_receipt_data.  The fields of a receipt    *)
(* other than items, subtotal, taxes_or_charges and grand_total are        *)
(* present and well-formed.                                                *)
(***************************************************************************)
\* The structure check refuses an empty item list.
_validate_json_structure(receipt) == receipt.items # <<>>

HTTPException(status_code, detail) ==
    [ok |-> FALSE, error |-> "HTTPException", status_code |-> status_code,
     detail |-> detail]

\* The detail of the status 500 that answers an extraction without result.
ExtractionFailed == "Failed to extract structured data from receipt"

ReceiptProcessResponse(receipt) ==
    [ok |-> TRUE, error |-> "", status_code |-> 200, processed_data |-> receipt]

(***************************************************************************)
(* The system.  A request arrives, its handler runs on it and the response *)
(* is returned (resp is <<>> until then).  Reconcile, Expand and           *)
(* CalculateSplit keep nothing between two requests; processing a receipt  *)
(* stores the validated receipt.                                           *)
(***************************************************************************)
\* No row in the two tables, the clock at 0.
NoSessions ==
    /\ sessions = <<>>
    /\ bill_sessions = <<>>
    /\ now = 0

InitReconcile ==
    /\ op = "reconcile"
    /\ req \in ExtractedReceipts
    /\ resp = <<>>
    /\ pc = "request"
    /\ receipt_data_dict = req
    /\ processed_data = {}
    /\ NoSessions

InitExpand ==
    /\ op = "expand"
    /\ req \in ExpandRequests
    /\ resp = <<>>
    /\ pc = "request"
    /\ receipt_data_dict = <<>>
    /\ processed_data = {}
    /\ NoSessions

InitSplit ==
    /\ op = "split"
    /\ req \in SplitRequests
    /\ resp = <<>>
    /\ pc = "request"
    /\ receipt_data_dict = <<>>
    /\ processed_data = {}
    /\ NoSessions

\* The receipt is uploaded; the extraction has answered with a JSON document,
\* parsed into receipt_data_dict.
InitProcess ==
    /\ op = "process"
    /\ req \in PipelineReceipts
    /\ resp = <<>>
    /\ pc = "request"
    /\ receipt_data_dict = req
    /\ processed_data = {}
    /\ NoSessions

\* The receipt is uploaded and has no processed data; the client sends its
\* corrected data, dumped into the dictionary (data_dict).
InitReprocess ==
    /\ op = "reprocess"
    /\ req \in PipelineReceipts
    /\ resp = <<>>
    /\ pc = "request"
    /\ receipt_data_dict = req
    /\ processed_data = {}
    /\ NoSessions

InitPipeline == InitProcess \/ InitReprocess

\* The tokens of the calls: two of the random tokens.
Tokens == {"t1", "t2"}

\* The data of an update: a step, a step and a participant, a field that
\* is not allowed, no field.
UpdateData ==
    {[current_step |-> 2],
     [current_step |-> 3, participants |-> <<"p1">>],
     [session_token |-> "t2"],
     <<>>}

InitSession ==
    /\ op = "session"
    /\ req = <<>>
    /\ resp = <<>>
    /\ pc = "request"
    /\ receipt_data_dict = <<>>
    /\ processed_data = {}
    /\ NoSessions

InitPreview ==
    /\ op = "preview"
    /\ req \in PreviewRequests
    /\ resp = <<>>
    /\ pc = "request"
    /\ receipt_data_dict = <<>>
    /\ processed_data = {}
    /\ NoSessions

Init ==
    \/ InitReconcile
    \/ InitExpand
    \/ InitSplit
    \/ InitPipeline
    \/ InitPreview
    \/ InitSession

\* ReceiptValidatorService.validate_and_process_receipt: the dictionary is
\* updated in place and is the value returned; an error leaves it as it was.
Reconcile ==
    /\ pc = "request"
    /\ op = "reconcile"
    /\ \E up \in BOOLEAN :
          LET result == validate_and_process_receipt(receipt_data_dict, up)
          IN  /\ resp' = result
              /\ receipt_data_dict' =
                     IF result.ok THEN result.data ELSE receipt_data_dict
    /\ pc' = "done"
    /\ UNCHANGED <<op, req, processed_data>>
    /\ UNCHANGED session_vars

\* validate_and_process_receipt on the dictionary its successful call
\* returned; req keeps the result of the first call.
ReconcileAgain ==
    /\ pc = "done"
    /\ op = "reconcile"
    /\ resp.ok
    /\ req' = resp
    /\ \E up \in BOOLEAN :
          LET result == validate_and_process_receipt(receipt_data_dict, up)
          IN  /\ resp' = result
              /\ receipt_data_dict' =
                     IF result.ok THEN result.data ELSE receipt_data_dict
    /\ pc' = "again"
    /\ UNCHANGED <<op, processed_data>>
    /\ UNCHANGED session_vars

\* OpenAIService._expand_items_to_unit_quantity
Expand ==
    /\ pc = "request"
    /\ op = "expand"
    /\ \E up \in BOOLEAN : resp' = _expand_items_to_unit_quantity(req, up)
    /\ pc' = "done"
    /\ UNCHANGED <<op, req, receipt_data_dict, processed_data>>
    /\ UNCHANGED session_vars

\* OpenAIService._expand_items_to_unit_quantity on its own result.
Renormalize ==
    /\ pc = "done"
    /\ op = "expand"
    /\ req' = resp
    /\ \E up \in BOOLEAN : resp' = _expand_items_to_unit_quantity(resp, up)
    /\ pc' = "again"
    /\ UNCHANGED <<op, receipt_data_dict, processed_data>>
    /\ UNCHANGED session_vars

\* POST /split/calculate
CalculateSplit ==
    /\ pc = "request"
    /\ op = "split"
    /\ \E up \in BOOLEAN : resp' = calculate_split(req, up)
    /\ pc' = "done"
    /\ UNCHANGED <<op, req, receipt_data_dict, processed_data>>
    /\ UNCHANGED session_vars

\* POST /split/preview
PreviewEqualSplit ==
    /\ pc = "request"
    /\ op = "preview"
    /\ \E up \in BOOLEAN :
          resp' = preview_equal_split(req.receipt_data, req.participant_count, up)
    /\ pc' = "done"
    /\ UNCHANGED <<op, req, receipt_data_dict, processed_data>>
    /\ UNCHANGED session_vars

\* POST /receipt/process/{receipt_id}, up to the validation inside
\* extract_receipt_data: a JSON structure that is refused or a validation
\* error makes extract_receipt_data return None, which process_receipt
\* answers with the status 500.
ProcessValidate ==
    /\ pc = "request"
    /\ op = "process"
    /\ \E up \in BOOLEAN :
          LET result ==
                  IF _validate_json_structure(receipt_data_dict)
                  THEN validate_and_process_receipt(receipt_data_dict, up)
                  ELSE Failure("invalid_json_structure", <<>>)
          IN  IF result.ok
              THEN /\ receipt_data_dict' = result.data
                   /\ pc' = "validated"
                   /\ UNCHANGED resp
              ELSE /\ resp' = HTTPException(500, ExtractionFailed)
                   /\ pc' = "done"
                   /\ UNCHANGED receipt_data_dict
    /\ UNCHANGED <<op, req, processed_data>>
    /\ UNCHANGED session_vars

\* POST /receipt/process/{receipt_id}, after the validation: the items are
\* expanded, the receipt is stored and returned.
ProcessExpand ==
    /\ pc = "validated"
    /\ op = "process"
    /\ \E up \in BOOLEAN :
          LET expanded ==
                  [receipt_data_dict EXCEPT
                      !.items = _expand_items_to_unit_quantity(@, up)]
          IN  /\ receipt_data_dict' = expanded
              /\ processed_data' = {expanded}
              /\ resp' = ReceiptProcessResponse(expanded)
    /\ pc' = "done"
    /\ UNCHANGED <<op, req>>
    /\ UNCHANGED session_vars

\* POST /receipt/reprocess/{receipt_id}
reprocess_receipt_with_corrections ==
    /\ pc = "request"
    /\ op = "reprocess"
    /\ \E up \in BOOLEAN :
          LET result == validate_and_process_receipt(receipt_data_dict, up)
          IN  IF result.ok
              THEN /\ receipt_data_dict' = result.data
                   /\ processed_data' = {result.data}
                   /\ resp' = ReceiptProcessResponse(result.data)
              ELSE /\ resp' = HTTPException(422,
                                  [error |-> "Receipt Validation Failed",
                                   message |-> <<result.error, result.info>>])
                   /\ UNCHANGED <<receipt_data_dict, processed_data>>
    /\ pc' = "done"
    /\ UNCHANGED <<op, req>>
    /\ UNCHANGED session_vars

\* The client posts to /split/calculate a receipt it holds: the one the
\* server stored and returned, or the one it sent as its correction.
SubmitSplit ==
    /\ pc = "done"
    /\ op \in {"process", "reprocess"}
    /\ \E receipt \in processed_data \cup (IF op = "reprocess" THEN {req} ELSE {}) :
          req' = SplitRequest(receipt)
    /\ op' = "split"
    /\ resp' = <<>>
    /\ pc' = "request"
    /\ UNCHANGED <<receipt_data_dict, processed_data>>
    /\ UNCHANGED session_vars

\* A call of the session service has returned: the tables are as the call
\* left them.
SessionCall(call, result) ==
    /\ op = "session"
    /\ req' = call
    /\ resp' = [value |-> result.value, log |-> result.log]
    /\ sessions' = result.db.sessions
    /\ bill_sessions' = result.db.bill_sessions
    /\ pc' = "done"
    /\ UNCHANGED <<op, receipt_data_dict, processed_data, now>>

\* SessionService.create_session: the token is a new random value.
CreateSession ==
    \E session_token \in Tokens \ (DOMAIN sessions \cup DOMAIN bill_sessions) :
        SessionCall([call |-> "create", session_token |-> session_token],
                    create_session(Database(sessions, bill_sessions),
                                   session_token, now))

\* SessionService.get_session
GetSession ==
    \E session_token \in Tokens, cascade \in BOOLEAN :
        SessionCall([call |-> "get", session_token |-> session_token],
                    get_session(Database(sessions, bill_sessions),
                                session_token, now, cascade))

\* SessionService.update_session
UpdateSession ==
    \E session_token \in Tokens, data \in UpdateData, cascade \in BOOLEAN :
        SessionCall([call |-> "update", session_token |-> session_token,
                     data |-> data],
                    update_session(Database(sessions, bill_sessions),
                                   session_token, data, now, cascade))

\* SessionService.delete_session
DeleteSession ==
    \E session_token \in Tokens, cascade \in BOOLEAN :
        SessionCall([call |-> "delete", session_token |-> session_token],
                    delete_session(Database(sessions, bill_sessions),
                                   session_token, cascade))

\* The periodic task of main.py: SessionService.cleanup_expired_sessions
CleanupExpiredSessions ==
    \E cascade \in BOOLEAN :
        SessionCall([call |-> "cleanup"],
                    cleanup_expired_sessions(Database(sessions, bill_sessions),
                                             now, cascade))

\* A minute passes.
Tick ==
    /\ op = "session"
    /\ now < MaxTime
    /\ now' = now + 1
    /\ UNCHANGED <<op, req, resp, pc, receipt_data_dict, processed_data,
                   sessions, bill_sessions>>

Next ==
    \/ CreateSession
    \/ GetSession
    \/ UpdateSession
    \/ DeleteSession
    \/ CleanupExpiredSessions
    \/ Tick
    \/ Reconcile
    \/ ReconcileAgain
    \/ Expand
    \/ Renormalize
    \/ CalculateSplit
    \/ PreviewEqualSplit
    \/ ProcessValidate
    \/ ProcessExpand
    \/ reprocess_receipt_with_corrections
    \/ SubmitSplit

Spec == Init /\ [][Next]_vars

\* Each handler on its own requests.
SpecReconcile == InitReconcile /\ [][Reconcile \/ ReconcileAgain]_vars

SpecExpand == InitExpand /\ [][Expand \/ Renormalize]_vars

SpecSplit == InitSplit /\ [][CalculateSplit]_vars

SpecPreview == InitPreview /\ [][PreviewEqualSplit]_vars

\* The session service under any sequence of calls and clock advances.
SpecSession ==
    /\ InitSession
    /\ [][\/ CreateSession
          \/ GetSession
          \/ UpdateSession
          \/ DeleteSession
          \/ CleanupExpiredSessions
          \/ Tick]_vars

\* An uploaded receipt: processed or reprocessed, then split.
SpecPipeline ==
    /\ InitPipeline
    /\ [][\/ ProcessValidate
          \/ ProcessExpand
          \/ reprocess_receipt_with_corrections
          \/ SubmitSplit
          \/ CalculateSplit]_vars

(***************************************************************************)
(* Properties of the reconciler.                                           *)
(***************************************************************************)
Reconciled == op = "reconcile" /\ pc = "done"

ItemsTotal == Sum(TotalPrices(req.items))
ChargesTotal == Sum(Amounts(req.taxes_or_charges))
ItemsGrandDiff == Abs(ItemsTotal - req.grand_total)
ComputedSubtotal == req.grand_total - ChargesTotal
ItemsComputedDiff == Abs(ItemsTotal - ComputedSubtotal)
ItemsSubtotalDiff == Abs(ItemsTotal - req.subtotal)
GrandDiff == Abs(req.subtotal + ChargesTotal - req.grand_total)

Succeeds(scenario, subtotal) ==
    /\ resp.ok
    /\ resp.validation_info.tax_scenario = scenario
    /\ resp.validation_info.final_subtotal = subtotal
    /\ resp.data.subtotal = subtotal

FailsWith(kind) == ~resp.ok /\ resp.error = kind

\* The subtotal is unstated and the charges do not sum to zero: the two
\* hypotheses are tested.
TwoHypotheses ==
    /\ Reconciled
    /\ req.grand_total > 0
    /\ req.subtotal <= Tolerance
    /\ ChargesTotal # 0

\* C1: with an unstated subtotal and a non-zero charges total, whenever the
\* items total is within the tolerance of the grand total the result is
\* tax-inclusive with resolved subtotal = grand total, also when the
\* tax-exclusive hypothesis matches too.
C1_InclusiveFirst ==
    (TwoHypotheses /\ ItemsGrandDiff <= Tolerance)
        => Succeeds("tax_inclusive", req.grand_total)

\* Both hypotheses match and tax-inclusive was chosen.
C1_Witness ==
    /\ TwoHypotheses
    /\ ItemsGrandDiff <= Tolerance
    /\ ItemsComputedDiff <= Tolerance
    /\ ComputedSubtotal >= 0
    /\ Succeeds("tax_inclusive", req.grand_total)

\* C2: with an explicitly provided subtotal there are exactly three
\* outcomes: ItemsSubtotalMismatch (checked first), else GrandTotalMismatch,
\* else success as tax-exclusive with the provided subtotal.
C2_ExplicitSubtotal ==
    (Reconciled /\ req.grand_total > 0 /\ req.subtotal > Tolerance)
        => IF ItemsSubtotalDiff > Tolerance
           THEN FailsWith("ItemsSubtotalMismatch")
           ELSE IF GrandDiff > Tolerance
           THEN FailsWith("GrandTotalMismatch")
           ELSE Succeeds("tax_exclusive", req.subtotal)

\* An explicit subtotal without any charge still gives tax-exclusive.
C2_Witness ==
    /\ Reconciled
    /\ req.subtotal > Tolerance
    /\ ChargesTotal = 0
    /\ Succeeds("tax_exclusive", req.subtotal)

\* C3 as claimed: the comparisons use the tolerance 0.05, so a discrepancy
\* of at most 0.05 reconciles and a subtotal of at most 0.05 is unstated.
C3_Tolerance_0_05 ==
    (Reconciled /\ req.grand_total > 0)
        => /\ (/\ req.subtotal > Tolerance_0_05
               /\ ItemsSubtotalDiff <= Tolerance_0_05
               /\ GrandDiff <= Tolerance_0_05) => resp.ok
           /\ (/\ req.subtotal <= Tolerance_0_05
               /\ ItemsGrandDiff <= Tolerance_0_05)
                  => (resp.ok /\ resp.validation_info.tax_scenario
                                     # "tax_exclusive")

\* C3 as amended: the comparisons use the tolerance 0.01: any discrepancy
\* above 0.01 is rejected and a subtotal above 0.01 is explicit.
C3_Tolerance_0_01 ==
    (Reconciled /\ req.grand_total > 0)
        => /\ req.subtotal > 1
              => /\ resp.ok => /\ ItemsSubtotalDiff <= 1
                               /\ GrandDiff <= 1
                               /\ Succeeds("tax_exclusive", req.subtotal)
                 /\ ~resp.ok => resp.error \in {"ItemsSubtotalMismatch",
                                                "GrandTotalMismatch"}
           /\ (req.subtotal <= 1 /\ ChargesTotal = 0)
              => /\ resp.ok => ItemsGrandDiff <= 1
                 /\ ~resp.ok => resp.error = "ItemsGrandTotalMismatch"
           /\ (req.subtotal <= 1 /\ ChargesTotal # 0)
              => /\ resp.ok => \/ ItemsGrandDiff <= 1
                               \/ ItemsComputedDiff <= 1
                 /\ ~resp.ok => resp.error = "AmbiguousTotals"

\* A discrepancy between 0.02 and 0.05 is rejected.
C3_Witness ==
    /\ Reconciled
    /\ req.subtotal > Tolerance_0_05
    /\ GrandDiff = 0
    /\ ItemsSubtotalDiff > 1
    /\ ItemsSubtotalDiff <= Tolerance_0_05
    /\ FailsWith("ItemsSubtotalMismatch")

\* C4: when the tax-inclusive hypothesis does not match, the result is
\* tax-exclusive with the computed subtotal exactly when that subtotal is
\* >= 0 and within the tolerance of the items total; otherwise the error is
\* AmbiguousTotals and carries both differences.
C4_ExclusiveOrAmbiguous ==
    (TwoHypotheses /\ ItemsGrandDiff > Tolerance)
        => IF ComputedSubtotal >= 0 /\ ItemsComputedDiff <= Tolerance
           THEN Succeeds("tax_exclusive", ComputedSubtotal)
           ELSE /\ FailsWith("AmbiguousTotals")
                /\ resp.info.items_grand_diff = ItemsGrandDiff
                /\ resp.info.items_subtotal_diff = ItemsComputedDiff

\* A negative computed subtotal that the items match is not accepted.
C4_Witness ==
    /\ TwoHypotheses
    /\ ItemsGrandDiff > Tolerance
    /\ ComputedSubtotal < 0
    /\ ItemsComputedDiff <= Tolerance
    /\ FailsWith("AmbiguousTotals")

\* C5: with an unstated subtotal and charges that sum to exactly 0 the
\* result is no_taxes with resolved subtotal = grand total exactly when
\* the items total is within the tolerance of the grand total, otherwise
\* ItemsGrandTotalMismatch.
C5_NoTaxes ==
    (/\ Reconciled
     /\ req.grand_total > 0
     /\ req.subtotal <= Tolerance
     /\ ChargesTotal = 0)
        => IF ItemsGrandDiff <= Tolerance
           THEN Succeeds("no_taxes", req.grand_total)
           ELSE FailsWith("ItemsGrandTotalMismatch")

\* Charge lines that cancel each other give no_taxes.
C5_Witness ==
    /\ Reconciled
    /\ req.subtotal <= Tolerance
    /\ req.taxes_or_charges # <<>>
    /\ ChargesTotal = 0
    /\ Succeeds("no_taxes", req.grand_total)

\* C6: a grand total <= 0 is rejected with MissingGrandTotal whatever the
\* other fields are, and no scenario or subtotal is produced.
C6_MissingGrandTotal ==
    (Reconciled /\ req.grand_total <= 0)
        => /\ FailsWith("MissingGrandTotal")
           /\ DOMAIN resp = {"ok", "error", "info"}

\* A receipt whose fields agree with a grand total of 0 is rejected.
C6_Witness ==
    /\ Reconciled
    /\ req.grand_total = 0
    /\ ItemsTotal = 0
    /\ ChargesTotal = 0
    /\ req.subtotal = 0
    /\ FailsWith("MissingGrandTotal")

ExpectedPercents(amount) ==
    LET scenario == resp.validation_info.tax_scenario
        resolved == resp.validation_info.final_subtotal
        base == IF scenario = "tax_inclusive"
                THEN resolved - ChargesTotal ELSE resolved
    IN  IF base <= 0 THEN {0}
        ELSE {Round(amount * 10000, base, up) : up \in BOOLEAN}

\* C7: after every successful reconciliation each charge line has its
\* percent populated with round(amount / base * 100, 2), or 0 when the
\* base is <= 0; none is left null or stale.
C7_PercentPopulated ==
    (Reconciled /\ resp.ok)
        => \A i \in DOMAIN resp.data.taxes_or_charges :
              LET tc == resp.data.taxes_or_charges[i]
              IN  \E p \in ExpectedPercents(tc.amount) : tc.percent = {p}

\* C16: a successful reconciliation leaves the dictionary it was given as it
\* was: the subtotal and the percent of every charge line are those of the
\* request.
C16_InputUntouched ==
    (Reconciled /\ resp.ok)
        => /\ receipt_data_dict.subtotal = req.subtotal
           /\ \A i \in DOMAIN req.taxes_or_charges :
                 receipt_data_dict.taxes_or_charges[i].percent
                     = req.taxes_or_charges[i].percent

(***************************************************************************)
(* Properties of the split.                                                *)
(***************************************************************************)
SplitDone == op = "split" /\ pc = "done" /\ resp.ok

\* The receipt of the request passes the reconciliation.
PassedReconcile == validate_and_process_receipt(req.receipt_data, TRUE).ok

SplitSum == Sum([i \in DOMAIN resp.person_splits |-> resp.person_splits[i].total])

\* C8: for a receipt that passed the reconciliation, if the split reports no
\* unassigned item then the participants' totals sum to the grand total
\* within 0.05.
C8_SplitConservation ==
    (SplitDone /\ PassedReconcile /\ resp.unassigned_items = <<>>)
        => Abs(SplitSum - req.receipt_data.grand_total) <= SplitTolerance

\* Some assignment with a valid participant id refers to item idx.
ValidlyAssigned(idx) ==
    \E k \in DOMAIN req.item_assignments :
        /\ req.item_assignments[k].item_index = idx
        /\ valid_person_ids(req.item_assignments[k], req.participants) # <<>>

ReportedUnassigned(idx) ==
    \E k \in DOMAIN resp.unassigned_items : resp.unassigned_items[k].index = idx

\* C9: an item is reported unassigned exactly when no assignment with a
\* valid participant id refers to it; an unassigned item is in nobody's
\* items, and a warning is emitted whenever one exists.
C9_UnassignedItems ==
    SplitDone
        => /\ \A idx \in 0..(Len(req.receipt_data.items) - 1) :
                 /\ ReportedUnassigned(idx) <=> ~ValidlyAssigned(idx)
                 /\ ReportedUnassigned(idx) =>
                        \A i \in DOMAIN resp.person_splits :
                            \A k \in DOMAIN resp.person_splits[i].items :
                                resp.person_splits[i].items[k].name
                                    # req.receipt_data.items[idx + 1].name
           /\ resp.unassigned_items # <<>> =>
                 \E w \in DOMAIN resp.validation_warnings :
                     resp.validation_warnings[w].kind = "unassigned_items"

\* C12: the reported total of every participant is the sum of the reported
\* (already rounded) subtotal, tax share and service charge share minus the
\* reported discount share.
C12_TotalOfRoundedParts ==
    SplitDone
        => \A i \in DOMAIN resp.person_splits :
              LET ps == resp.person_splits[i]
              IN  ps.total = ps.subtotal + ps.tax_share
                                 + ps.service_charge_share - ps.discount_share

\* The person ids of an assignment that are not participants.
InvalidIds(assignment) ==
    {pid \in Range(assignment.person_ids) : pid \notin Range(req.participants)}

\* A warning about the participants of the assignment of item idx.
ParticipantWarning(idx) ==
    \E w \in DOMAIN resp.validation_warnings :
        /\ resp.validation_warnings[w].kind = "no_valid_participants"
        /\ resp.validation_warnings[w].detail = idx

\* Participant pid has item idx among its items.
SharesItem(pid, idx) ==
    \E i \in DOMAIN resp.person_splits :
        /\ resp.person_splits[i].person_id = pid
        /\ \E k \in DOMAIN resp.person_splits[i].items :
              resp.person_splits[i].items[k].name
                  = req.receipt_data.items[idx + 1].name

\* C13: an assignment that lists an id that is not a participant produces a
\* warning, also when another listed id is valid, and its valid ids still
\* share the item.
C13_InvalidParticipantWarned ==
    SplitDone
        => \A k \in DOMAIN req.item_assignments :
              LET a == req.item_assignments[k]
                  idx == a.item_index
              IN  (idx >= 0 /\ idx < Len(req.receipt_data.items)
                           /\ InvalidIds(a) # {})
                      => /\ ParticipantWarning(idx)
                         /\ \A pid \in Range(valid_person_ids(a, req.participants)) :
                               SharesItem(pid, idx)

\* The sum of the participants' reported subtotals.
TotalSubtotal ==
    Sum([i \in DOMAIN resp.person_splits |-> resp.person_splits[i].subtotal])

\* r is num / den rounded to the cent (den > 0).
NearestCent(r, num, den) == 2 * Abs(r * den - num) <= den

\* The reported share r of participant i in a bucket of the given total is
\* the share its mode asks for: total / count when equal; when proportional
\* total * subtotal / sum of the subtotals, or total / count if that sum is 0.
ShareFollowsMode(r, total, mode, i) ==
    IF mode = "proportional" /\ TotalSubtotal > 0
    THEN NearestCent(r, total * resp.person_splits[i].subtotal, TotalSubtotal)
    ELSE NearestCent(r, total, Len(resp.person_splits))

\* C21: each of the three buckets is distributed by its own mode, whatever
\* the modes of the other two: equally, or in proportion to the
\* participant's subtotal (equally when all subtotals are 0).
C21_BucketModes ==
    SplitDone
        => \A i \in DOMAIN resp.person_splits :
              LET ps == resp.person_splits[i]
              IN  /\ ShareFollowsMode(ps.tax_share, resp.totals.total_tax,
                                      req.tax_distribution, i)
                  /\ ShareFollowsMode(ps.service_charge_share,
                                      resp.totals.total_service_charge,
                                      req.service_charge_distribution, i)
                  /\ ShareFollowsMode(ps.discount_share,
                                      resp.totals.total_discount,
                                      req.discount_distribution, i)

\* Items of 10.00 and 5.00 for two participants, tax 1.05 in proportion
\* (0.70 and 0.35), service charge 1.50 equally (0.75 each), discount 0.55
\* in proportion (0.37 and 0.18).
C21_Witness ==
    /\ SplitDone
    /\ req.tax_distribution = "proportional"
    /\ req.service_charge_distribution = "equal"
    /\ req.discount_distribution = "proportional"
    /\ Len(resp.person_splits) = 2
    /\ resp.person_splits[1].subtotal = 1000
    /\ resp.person_splits[2].subtotal = 500
    /\ resp.person_splits[1].tax_share = 70
    /\ resp.person_splits[2].tax_share = 35
    /\ resp.person_splits[1].service_charge_share = 75
    /\ resp.person_splits[2].service_charge_share = 75
    /\ resp.person_splits[1].discount_share = 37
    /\ resp.person_splits[2].discount_share = 18

\* The valid participants of assignment k, and whether it is carried out.
ValidOf(k) == valid_person_ids(req.item_assignments[k], req.participants)

Carried(k) ==
    /\ req.item_assignments[k].item_index >= 0
    /\ req.item_assignments[k].item_index < Len(req.receipt_data.items)
    /\ ValidOf(k) # <<>>

\* The weight the request gives pid in assignment k (0 if it gives none).
RawShare(k, pid) ==
    LET given == req.item_assignments[k].shares
    IN  IF given = {} THEN 0
        ELSE LET m == CHOOSE f \in given : TRUE
             IN  IF pid \in DOMAIN m THEN m[pid] ELSE 0

RawTotal(k) == Sum([i \in DOMAIN ValidOf(k) |-> RawShare(k, ValidOf(k)[i])])

\* Custom shares are supplied and their sum over the valid ids is > 0.
CustomRatios(k) ==
    /\ req.item_assignments[k].shares # {}
    /\ DOMAIN (CHOOSE f \in req.item_assignments[k].shares : TRUE) # {}
    /\ RawTotal(k) > 0

\* The ratio the claim gives pid in assignment k, as <<numerator, denominator>>.
ClaimedRatio(k, pid) ==
    IF CustomRatios(k) THEN <<RawShare(k, pid), RawTotal(k)>>
    ELSE <<1, Len(ValidOf(k))>>

\* The entries of pid's item list.
EntriesOf(pid) ==
    LET i == CHOOSE j \in DOMAIN resp.person_splits :
                 resp.person_splits[j].person_id = pid
    IN  resp.person_splits[i].items

\* C22: in every assignment that is carried out the ratios of the valid
\* participants sum to 1: raw[p] / sum of raw when custom shares with a
\* positive sum are supplied, 1 / count otherwise; each share amount is
\* the item total times the ratio, rounded to the cent, and a participant's
\* subtotal is the sum of its share amounts.
C22_ShareRatios ==
    SplitDone
        => /\ \A k \in DOMAIN req.item_assignments :
                 Carried(k)
                     => LET item == req.receipt_data.items[
                                        req.item_assignments[k].item_index + 1]
                            valid == ValidOf(k)
                        IN  /\ Sum([i \in DOMAIN valid |-> ClaimedRatio(k, valid[i])[1]])
                                   = ClaimedRatio(k, valid[1])[2]
                            /\ \A i \in DOMAIN valid :
                                  LET ratio == ClaimedRatio(k, valid[i])
                                  IN  \E e \in DOMAIN EntriesOf(valid[i]) :
                                        LET entry == EntriesOf(valid[i])[e]
                                        IN  /\ entry.name = item.name
                                            /\ entry.share_ratio[1] * ratio[2]
                                                   = ratio[1] * entry.share_ratio[2]
                                            /\ NearestCent(entry.share_amount,
                                                   item.total_price * ratio[1], ratio[2])
           /\ \A i \in DOMAIN resp.person_splits :
                 LET ps == resp.person_splits[i]
                 IN  ps.subtotal
                         = Sum([e \in DOMAIN ps.items |-> ps.items[e].share_amount])

\* Custom weights 1 and 3 on an item of 10.00: 2.50 and 7.50; and an
\* assignment whose list holds an unknown id next to a valid one.
C22_Witness ==
    /\ SplitDone
    /\ Len(req.item_assignments) = 2
    /\ Carried(1)
    /\ CustomRatios(1)
    /\ Len(ValidOf(1)) = 2
    /\ \E i \in DOMAIN resp.person_splits :
          \E e \in DOMAIN resp.person_splits[i].items :
              /\ resp.person_splits[i].items[e].share_ratio = <<3, 4>>
              /\ resp.person_splits[i].items[e].share_amount = 750
    /\ Carried(2)
    /\ Len(ValidOf(2)) < Len(req.item_assignments[2].person_ids)

\* The bucket of a charge line: a reduction is a discount whatever its
\* name, a name with "service" or "svc" in any letter case a service charge.
BucketOf(tc) ==
    IF tc.amount < 0 THEN "discount"
    ELSE IF \/ Contains(name_lower(tc.name), Service)
            \/ Contains(name_lower(tc.name), Svc)
         THEN "service"
    ELSE "tax"

\* The absolute amounts of the request's charge lines of bucket b.
BucketTotal(b) ==
    LET lines == req.receipt_data.taxes_or_charges
    IN  Sum([i \in DOMAIN lines |->
                IF BucketOf(lines[i]) = b THEN Abs(lines[i].amount) ELSE 0])

\* The totals of a split or of a preview are reported.
TotalsReported == op \in {"split", "preview"} /\ pc = "done" /\ resp.ok

\* C23: every charge line is in exactly one bucket: a negative amount in the
\* discount bucket with its absolute value, otherwise a name containing
\* "service" or "svc" in the service-charge bucket, every other line in the
\* tax bucket; total_tax + total_service_charge - total_discount is the sum
\* of the charge amounts.
C23_OneBucketPerLine ==
    TotalsReported
        => /\ resp.totals.total_tax = BucketTotal("tax")
           /\ resp.totals.total_service_charge = BucketTotal("service")
           /\ resp.totals.total_discount = BucketTotal("discount")
           /\ resp.totals.total_tax + resp.totals.total_service_charge
                  - resp.totals.total_discount
                  = Sum([i \in DOMAIN req.receipt_data.taxes_or_charges |->
                            req.receipt_data.taxes_or_charges[i].amount])

\* The split of the receipt with the lines SVC 1.00, Service Charge -0.50
\* and GST 0.50 puts them in the three buckets.
C23_SplitBuckets ==
    /\ SplitDone
    /\ \E i \in DOMAIN req.receipt_data.taxes_or_charges :
          /\ req.receipt_data.taxes_or_charges[i].name = "SVC"
          /\ req.receipt_data.taxes_or_charges[i].amount > 0
    /\ resp.totals.total_service_charge = 100
    /\ resp.totals.total_discount = 50
    /\ resp.totals.total_tax = 50

\* C24: a request with an empty participant list fails with the
\* NoParticipants error and carries no split result, whatever the receipt
\* and the assignments are.
C24_NoParticipants ==
    (op = "split" /\ pc = "done" /\ req.participants = <<>>)
        => /\ ~resp.ok
           /\ resp.error = "NoParticipants"
           /\ "person_splits" \notin DOMAIN resp
           /\ "totals" \notin DOMAIN resp

\* An empty participant list with two assignments, one of them in range.
C24_Witness ==
    /\ op = "split"
    /\ pc = "done"
    /\ req.participants = <<>>
    /\ Len(req.item_assignments) = 2
    /\ \E k \in DOMAIN req.item_assignments :
          req.item_assignments[k].item_index = 0
    /\ ~resp.ok

\* The item index of the assignment is negative or not below the item count.
InvalidIndex(assignment) ==
    \/ assignment.item_index < 0
    \/ assignment.item_index >= Len(req.receipt_data.items)

\* The request without its assignments of an invalid index.
WithoutInvalid ==
    [req EXCEPT !.item_assignments =
                    SelectSeq(@, LAMBDA a : ~InvalidIndex(a))]

IndexWarnings(warnings) ==
    SelectSeq(warnings, LAMBDA w : w.kind = "invalid_item_index")

OtherWarnings(warnings) ==
    SelectSeq(warnings, LAMBDA w : w.kind # "invalid_item_index")

\* C25: an assignment whose item index is out of range adds one warning and
\* is skipped: the participants' results and the unassigned items are those
\* of the request without it, and the other assignments are processed.
C25_InvalidIndexSkipped ==
    SplitDone
        => /\ Len(IndexWarnings(resp.validation_warnings))
                  = Len(SelectSeq(req.item_assignments, InvalidIndex))
           /\ \E up \in BOOLEAN :
                 LET rest == calculate_split(WithoutInvalid, up)
                 IN  /\ resp.person_splits = rest.person_splits
                     /\ resp.unassigned_items = rest.unassigned_items
                     /\ OtherWarnings(resp.validation_warnings)
                            = rest.validation_warnings

\* An assignment of index -1 or 1 on a receipt of one item, before an
\* assignment that is carried out.
C25_Witness ==
    /\ SplitDone
    /\ Len(req.item_assignments) = 2
    /\ InvalidIndex(req.item_assignments[1])
    /\ Carried(2)
    /\ Len(IndexWarnings(resp.validation_warnings)) = 1
    /\ \E i \in DOMAIN resp.person_splits : resp.person_splits[i].items # <<>>

\* The response warns that the split total differs from the grand total.
DriftWarned ==
    \E w \in DOMAIN resp.validation_warnings :
        resp.validation_warnings[w].kind = "split_total_differs"

\* C26: the final comparison never fails the request: with a participant
\* the response is a success with one result per participant, in order,
\* and the drift warning is there exactly when the sum of the totals
\* differs from the grand total by more than 0.05.
C26_PostCheckNeverFails ==
    (op = "split" /\ pc = "done" /\ req.participants # <<>>)
        => /\ resp.ok
           /\ Len(resp.person_splits) = Len(req.participants)
           /\ \A i \in DOMAIN req.participants :
                 resp.person_splits[i].person_id = req.participants[i]
           /\ DriftWarned <=> Abs(SplitSum - req.receipt_data.grand_total) > 5

\* A split whose totals are 5.00 away from the grand total, with the
\* warning, and still a success.
C26_Witness ==
    /\ SplitDone
    /\ Len(req.participants) >= 2
    /\ Abs(SplitSum - req.receipt_data.grand_total) = 500
    /\ DriftWarned

\* A split whose totals differ from the grand total by 0.01: no warning.
C26_SmallDrift ==
    /\ SplitDone
    /\ Abs(SplitSum - req.receipt_data.grand_total) = 1
    /\ ~DriftWarned

\* The receipt a successful call returned has been reconciled again: req
\* is the first result, resp the second.
ReconciledAgain == op = "reconcile" /\ pc = "again"

\* C27: the reconciler accepts its own output: reconciling the receipt a
\* successful call returned (the subtotal replaced by the resolved one)
\* succeeds with the same scenario and the same resolved subtotal.
C27_AcceptsOwnOutput ==
    ReconciledAgain
        => /\ resp.ok
           /\ resp.validation_info.tax_scenario
                  = req.validation_info.tax_scenario
           /\ resp.validation_info.final_subtotal
                  = req.validation_info.final_subtotal

\* The same, for the receipts that were tax-exclusive the first time.
C27_TaxExclusiveKept ==
    (ReconciledAgain /\ req.validation_info.tax_scenario = "tax_exclusive")
        => /\ resp.ok
           /\ resp.validation_info.tax_scenario = "tax_exclusive"
           /\ resp.validation_info.final_subtotal
                  = req.validation_info.final_subtotal

\* A tax-inclusive receipt is refused the second time.
C27_InclusiveRefused ==
    /\ ReconciledAgain
    /\ req.validation_info.tax_scenario = "tax_inclusive"
    /\ ~resp.ok
    /\ resp.error = "GrandTotalMismatch"

\* A receipt without taxes is tax-exclusive the second time.
C27_NoTaxesRenamed ==
    /\ ReconciledAgain
    /\ req.validation_info.tax_scenario = "no_taxes"
    /\ resp.ok
    /\ resp.validation_info.tax_scenario = "tax_exclusive"

\* The outcome of the validation of the uploaded receipt (req).
ValidatedAs == validate_and_process_receipt(req, TRUE).validation_info

\* The value the items were validated against: the resolved subtotal of a
\* tax-exclusive receipt, the grand total of the others.
ValidatedAgainst ==
    IF ValidatedAs.tax_scenario = "tax_exclusive"
    THEN ValidatedAs.final_subtotal
    ELSE req.grand_total

\* C28: the receipt a successful extraction returns is consistent after the
\* expansion: the total prices of its expanded items add up, within the
\* reconciler's tolerance, to the value they were validated against.
C28_ConsistentAfterExpansion ==
    (op = "process" /\ pc = "done" /\ resp.ok)
        => Abs(Sum(TotalPrices(resp.processed_data.items)) - ValidatedAgainst)
               <= Tolerance

\* Before the expansion the validated items do add up to that value.
C28_ConsistentBeforeExpansion ==
    (op = "process" /\ pc = "validated")
        => Abs(Sum(TotalPrices(receipt_data_dict.items)) - ValidatedAgainst)
               <= Tolerance

\* The number of shares in the participants' item lists.
ShareCount ==
    Sum([i \in DOMAIN resp.person_splits |-> Len(resp.person_splits[i].items)])

\* C29: no item is charged more than once: the participants' subtotals add
\* up to at most the total prices of the receipt's items plus half a cent
\* of rounding per share, whatever the assignments are.
C29_NoItemChargedTwice ==
    SplitDone
        => 2 * (TotalSubtotal - Sum(TotalPrices(req.receipt_data.items)))
               <= ShareCount

\* The same, for the requests that name no item index twice.
C29_DistinctIndices ==
    (SplitDone
     /\ \A j, k \in DOMAIN req.item_assignments :
            req.item_assignments[j].item_index
                = req.item_assignments[k].item_index => j = k)
        => 2 * (TotalSubtotal - Sum(TotalPrices(req.receipt_data.items)))
               <= ShareCount

\* The step is the named call for token t (the clock stands still).
Called(call, t) ==
    /\ op = "session"
    /\ now' = now
    /\ req'.call = call
    /\ req'.session_token = t

\* The session of token t is there and its expiry is in the past.
Expired(t) == t \in DOMAIN sessions /\ now > sessions[t]

\* No session row and no bill row of t has another content after the step.
RowsNotChanged(t) ==
    /\ t \in DOMAIN sessions' => sessions'[t] = sessions[t]
    /\ (t \in DOMAIN bill_sessions /\ t \in DOMAIN bill_sessions')
           => bill_sessions'[t] = bill_sessions[t]

\* What a step does to the session of token t.
ExpiredSessionClosed(t) ==
    /\ (Expired(t) /\ Called("get", t))
           => resp'.value = {} /\ t \notin DOMAIN sessions'
    /\ (Expired(t) /\ Called("update", t))
           => resp'.value = FALSE /\ RowsNotChanged(t)
    /\ (t \in DOMAIN sessions /\ t \in DOMAIN sessions'
         /\ sessions'[t] # sessions[t])
           => /\ Called("update", t)
              /\ resp'.value = TRUE
              /\ sessions'[t] = now + 5

\* C30: an expired session is never readable or updatable: in every
\* sequence of calls and clock advances, once the clock is past a session's
\* expires_at, get_session returns no data for it and deletes it, and
\* update_session returns failure and leaves its expiry and its bill data
\* as they are; only a successful update_session moves expires_at, to 5
\* minutes after the time of the update.
C30_ExpiredSessionClosed == [][\A t \in Tokens : ExpiredSessionClosed(t)]_vars

\* An update of an expired session has been refused, at a time when
\* another session had been prolonged beyond its first expiry.
C30_Witness ==
    /\ op = "session"
    /\ req # <<>>
    /\ req.call = "update"
    /\ DOMAIN req.data # {}
    /\ resp.value = FALSE
    /\ resp.log[1] = "Session expired, cleaning up"
    /\ req.session_token \notin DOMAIN sessions
    /\ \E t \in DOMAIN sessions : sessions[t] > now

\* A read of an expired session has returned nothing.
C30_ExpiredRead ==
    /\ op = "session"
    /\ req # <<>>
    /\ req.call = "get"
    /\ resp.value = {}
    /\ resp.log[1] = "Session expired, cleaning up"

(***************************************************************************)
(* Properties of the expansion.                                            *)
(***************************************************************************)
Expanded == op = "expand" /\ pc = "done"

\* C10: an item with quantity N > 1 and a total > 0 expands to N unit items
\* whose totals sum exactly to the original total.
C10_ExpandSumExact ==
    (/\ Expanded
     /\ Len(req) = 1
     /\ req[1].quantity > 1
     /\ req[1].total_price > 0)
        => /\ Len(resp) = req[1].quantity
           /\ Sum(TotalPrices(resp)) = req[1].total_price

\* The difference between the totals of the result and of the input.
ExpandDrift == Abs(Sum(TotalPrices(resp)) - Sum(TotalPrices(req)))

TotalsKept ==
    \A i \in DOMAIN req : req[i].total_price > 0 \/ req[i].quantity = 1

Units(item) == IF item.quantity > 1 THEN item.quantity ELSE 1

\* The number of result items that precede those of input item i.
Offset(i) == Sum([j \in 1..(i - 1) |-> Units(req[j])])

\* C18: every item of the result has quantity 1; an item of quantity N > 1
\* gives exactly N of them and an item of quantity <= 1 (0 and negative
\* included) exactly one, in the order of the input items.
C18_UnitQuantityInOrder ==
    Expanded
        => /\ \A k \in DOMAIN resp : resp[k].quantity = 1
           /\ Len(resp) = Offset(Len(req) + 1)
           /\ \A i \in DOMAIN req :
                 \A k \in (Offset(i) + 1)..(Offset(i) + Units(req[i])) :
                     k \in DOMAIN resp /\ resp[k].name = req[i].name

\* An item of quantity 3 followed by an item of another name and of
\* quantity 0 or less: four result items.
C18_Witness ==
    /\ Expanded
    /\ Len(req) = 2
    /\ req[1].quantity = 3
    /\ req[2].quantity <= 0
    /\ req[1].name # req[2].name
    /\ Len(resp) = 4

\* C19: an item of quantity <= 1 keeps its name and unit price, and if its
\* total is 0 the total of the result item is its unit price, for quantity
\* exactly 1 as for a quantity below 1.
C19_PassThrough ==
    Expanded
        => \A i \in DOMAIN req :
              req[i].quantity <= 1
                  => LET out == resp[Offset(i) + 1]
                     IN  /\ out.name = req[i].name
                         /\ out.unit_price = req[i].unit_price
                         /\ req[i].total_price = 0
                                => out.total_price = req[i].unit_price

\* The expansion has run on its own result.
Renormalized == op = "expand" /\ pc = "again"

\* C20: the expansion of a result of the expansion is that result: the same
\* length and, item by item, the same name, quantity, unit price and total.
C20_Idempotent ==
    Renormalized
        => /\ Len(resp) = Len(req)
           /\ \A k \in DOMAIN req :
                 /\ resp[k].name = req[k].name
                 /\ resp[k].quantity = req[k].quantity
                 /\ resp[k].unit_price = req[k].unit_price
                 /\ resp[k].total_price = req[k].total_price

\* The first result had three items or more, one of which with a total that
\* differs from its unit price (the last unit of 10.00 in three).
C20_Witness ==
    /\ Renormalized
    /\ Len(req) >= 3
    /\ \E k \in DOMAIN req :
          req[k].total_price > 0 /\ req[k].unit_price # req[k].total_price

(***************************************************************************)
(* Properties of the processing of an uploaded receipt.                    *)
(***************************************************************************)
\* C14: a split is computed only for a receipt whose reconciliation
\* succeeded: when the split has run, the receipt has validated data stored.
C14_SplitOnlyReconciled == SplitDone => processed_data # {}

\* The processing of the uploaded receipt has answered.
Processed == op = "process" /\ pc = "done"

\* The reconciliation of the extracted receipt raises an error.
ReconciliationFails ==
    /\ _validate_json_structure(req)
    /\ ~validate_and_process_receipt(req, TRUE).ok

\* C15: when the reconciliation fails while an uploaded receipt is
\* processed, the caller receives the validation failure (status 422) with
\* the technical diagnostic, not the generic extraction failure.
C15_ValidationFailureReported ==
    (Processed /\ ReconciliationFails)
        => /\ resp.status_code = 422
           /\ "technical_details" \in DOMAIN resp.detail

UnitQuantities(items) == \A i \in DOMAIN items : items[i].quantity = 1

\* C17: the item list the reconciliation has checked, and the one stored as
\* validated, contain only items of quantity 1.
C17_NormalizedBeforeReconcile ==
    /\ (op = "process" /\ pc = "validated")
          => UnitQuantities(receipt_data_dict.items)
    /\ \A receipt \in processed_data : UnitQuantities(receipt.items)

====
